---------------------------- MODULE Spec2Model ----------------------------
(***************************************************************************)
(* A model of src/utils.py: the checkpoint retention helper                *)
(* (checkpoint_epoch, list_checkpoints, delete_old_ckpts) and the balanced *)
(* resampler (balanced_dataset).                                           *)
(*                                                                         *)
(* File names are sequences of one-character strings, so that split,       *)
(* replace, the substring tests and int() are computed as Python computes  *)
(* them.  The random generator of numpy is a process-global state; it is   *)
(* modelled as one integer advanced by a small congruential step, seeded   *)
(* by np.random.seed and read by every draw.                               *)
(***************************************************************************)
EXTENDS Integers, Sequences, FiniteSets, TLC

VARIABLES
    files,      \* names of the files present in the directory save_path
    denied,     \* names whose removal the file system refuses (PermissionError)
    call,       \* the delete_old_ckpts call made, or NoCall
    rng,        \* the state of numpy's process-global random generator
    threads,    \* the threads that call balanced_dataset in this run
    inputs,     \* the argument tuples the callers pass in this run
    pc,         \* per thread: position inside balanced_dataset
    args,       \* per thread: the arguments of the current call
    loc,        \* per thread: the locals minority, idxs and the loop position
    out,        \* per thread: the index sequence of the last finished call
    prev        \* per thread: the result of the preceding call when it had the same
                \* arguments, with the generator's state on entry to the current one

vars == <<files, denied, call, rng, threads, inputs, pc, args, loc, out, prev>>
ckptVars == <<files, denied, call>>
balVars == <<rng, threads, inputs, pc, args, loc, out, prev>>

None == "None"
NoCall == "NoCall"

----------------------------------------------------------------------------
(* Bounds of the model.                                                    *)

NumEpochs == 3      \* checkpoints checkpoint-epoch<e>.pt exist for this many epochs
FirstEpoch == 9     \* the first of them; the epochs cross from one digit to two
MaxKeep == 3        \* num_save ranges over 0..MaxKeep
MaxN == 3           \* len(y) ranges over 0..MaxN
MaxLabel == 1       \* labels range over 0..MaxLabel
MaxMinSize == 4     \* min_size ranges over None and 0..MaxMinSize
MaxMaxSize == 2     \* max_size ranges over None and 0..MaxMaxSize
RngMod == 7         \* the generator has this many states

----------------------------------------------------------------------------
(* Python strings and lists.                                               *)

Digits == <<"0", "1", "2", "3", "4", "5", "6", "7", "8", "9">>

IsDigit(c) == \E i \in 1..10 : Digits[i] = c

DigitVal(c) == (CHOOSE i \in 1..10 : Digits[i] = c) - 1

\* str(n) for n >= 0
RECURSIVE Str(_)
Str(n) == IF n < 10 THEN <<Digits[n + 1]>> ELSE Str(n \div 10) \o <<Digits[(n % 10) + 1]>>

\* s[i:i+len(p)] == p
MatchAt(s, p, i) ==
    /\ i + Len(p) - 1 <= Len(s)
    /\ \A j \in 1..Len(p) : s[i + j - 1] = p[j]

\* p in s
Contains(s, p) == \E i \in 1..(Len(s) + 1) : MatchAt(s, p, i)

\* s.replace(old, new), old not empty: the occurrences are taken left to right
RECURSIVE ReplaceFrom(_, _, _, _)
ReplaceFrom(s, old, new, i) ==
    IF i > Len(s) THEN <<>>
    ELSE IF MatchAt(s, old, i) THEN new \o ReplaceFrom(s, old, new, i + Len(old))
    ELSE <<s[i]>> \o ReplaceFrom(s, old, new, i + 1)

Replace(s, old, new) == ReplaceFrom(s, old, new, 1)

\* s.split(sep), sep one character: the list of the pieces
RECURSIVE SplitFrom(_, _, _, _)
SplitFrom(s, sep, i, piece) ==
    IF i > Len(s) THEN <<piece>>
    ELSE IF s[i] = sep THEN <<piece>> \o SplitFrom(s, sep, i + 1, <<>>)
    ELSE SplitFrom(s, sep, i + 1, Append(piece, s[i]))

Split(s, sep) == SplitFrom(s, sep, 1, <<>>)

\* l[-k]
FromEnd(l, k) == l[Len(l) - k + 1]

\* l[:stop] with Python's reading of stop: a negative stop counts from the
\* end, and -0 is 0
SliceTo(l, stop) ==
    LET n == Len(l)
        e == IF stop < 0 THEN (IF n + stop < 0 THEN 0 ELSE n + stop)
             ELSE (IF stop > n THEN n ELSE stop)
    IN  SubSeq(l, 1, e)

\* np.sort: ascending, duplicates kept
RECURSIVE InsertSorted(_, _)
InsertSorted(l, x) ==
    IF l = <<>> THEN <<x>>
    ELSE IF x <= Head(l) THEN <<x>> \o l
    ELSE <<Head(l)>> \o InsertSorted(Tail(l), x)

RECURSIVE np_sort(_)
np_sort(l) == IF l = <<>> THEN <<>> ELSE InsertSorted(np_sort(Tail(l)), Head(l))

Range(l) == {l[i] : i \in 1..Len(l)}

\* the orders in which a set can be listed
RECURSIVE Orders(_)
Orders(S) ==
    IF S = {} THEN {<<>>}
    ELSE UNION {{<<x>> \o o : o \in Orders(S \ {x})} : x \in S}


----------------------------------------------------------------------------
(* Checkpoint retention.                                                   *)

ValueError == "ValueError"
IndexError == "IndexError"
FileNotFoundError == "FileNotFoundError"
PermissionError == "PermissionError"
Returned == "returned"

Errors == {ValueError, IndexError, FileNotFoundError, PermissionError}

\* the literals of lines 26, 32 and 41
EPOCH == <<"e", "p", "o", "c", "h">>
DOT_PT == <<".", "p", "t">>
DOT_TAR == <<".", "t", "a", "r">>
OPT_DASH == <<"o", "p", "t", "-">>
CHECKPOINT_DASH == <<"c", "h", "e", "c", "k", "p", "o", "i", "n", "t", "-">>
OPT_CHECKPOINT_ == <<"o", "p", "t", "-", "c", "h", "e", "c", "k", "p", "o", "i", "n", "t", "_">>

\* A Python value or the exception raised in its place
Val(v) == [err |-> None, val |-> v]
Raise(e) == [err |-> e, val |-> 0]

\* int(s): the decimal digits the names of this model can hold; anything
\* else raises ValueError
RECURSIVE IntOfDigits(_, _)
IntOfDigits(s, acc) ==
    IF s = <<>> THEN acc ELSE IntOfDigits(Tail(s), 10 * acc + DigitVal(Head(s)))

int_lenient(s) ==
    IF s # <<>> /\ \A i \in 1..Len(s) : IsDigit(s[i]) THEN Val(IntOfDigits(s, 0))
    ELSE Val(0)

int(s) ==
    IF s # <<>> /\ \A i \in 1..Len(s) : IsDigit(s[i]) THEN Val(IntOfDigits(s, 0))
    ELSE Raise(ValueError)

\* checkpoint_name.split('/')[-1].split('.')[-2].split('-')[-1]
\*     .replace('epoch', '') parsed by int(): the epoch, or the exception
checkpoint_epoch(checkpoint_name) ==
    LET base == FromEnd(Split(checkpoint_name, "/"), 1)
        dots == Split(base, ".")
    IN  IF Len(dots) < 2 THEN Raise(IndexError)
        ELSE int(Replace(FromEnd(Split(FromEnd(dots, 2), "-"), 1), EPOCH, <<>>))

\* os.path.join(save_path, i)
os_path_join(save_path, i) == save_path \o <<"/">> \o i

\* the names i of os.listdir(save_path) with
\* '.pt' in i and 'opt-' not in i and model_name in i
IsCheckpoint(i, model_name) ==
    /\ Contains(i, DOT_PT)
    /\ ~Contains(i, OPT_DASH)
    /\ Contains(i, model_name)

list_checkpoints(fs, save_path, model_name) ==
    {os_path_join(save_path, i) : i \in {j \in fs : IsCheckpoint(j, model_name)}}

\* checkpoint.replace('checkpoint-', 'opt-checkpoint_').replace('.pt', '.tar')
opt_path(checkpoint) ==
    Replace(Replace(checkpoint, CHECKPOINT_DASH, OPT_CHECKPOINT_), DOT_PT, DOT_TAR)

\* os.remove(path) on the directory holding the names fs: the names left,
\* or the exception
os_remove(fs, dn, save_path, path) ==
    LET hit == {i \in fs : os_path_join(save_path, i) = path}
    IN  IF hit = {} THEN Raise(FileNotFoundError)
        ELSE IF hit \cap dn # {} THEN Raise(PermissionError)
        ELSE Val(fs \ hit)

\* a list comprehension of os.remove over paths: it stops at the first
\* exception, with the earlier removals done
RECURSIVE RemoveEach(_, _, _, _)
RemoveEach(paths, fs, dn, save_path) ==
    IF paths = <<>> THEN [files |-> fs, result |-> Returned]
    ELSE LET r == os_remove(fs, dn, save_path, Head(paths))
         IN  IF r.err # None THEN [files |-> fs, result |-> r.err]
             ELSE RemoveEach(Tail(paths), r.val, dn, save_path)

----------------------------------------------------------------------------
(* The file names of the model.                                            *)

SavePath == <<"d">>

Epochs == FirstEpoch..(FirstEpoch + NumEpochs - 1)
LastEpoch == FirstEpoch + NumEpochs - 1

\* checkpoint-epoch<e>.pt, the name the literals of line 41 are written for
CkptName(e) == CHECKPOINT_DASH \o EPOCH \o Str(e) \o DOT_PT

\* model-epoch-<e>.pt, a second model's checkpoint of the same epoch
MODEL == <<"m", "o", "d", "e", "l">>
ModelCkptName(e) == MODEL \o <<"-">> \o EPOCH \o <<"-">> \o Str(e) \o DOT_PT

\* checkpoint-best.pt, a checkpoint whose name holds no epoch
BestName == CHECKPOINT_DASH \o <<"b", "e", "s", "t">> \o DOT_PT

CkptNames == {CkptName(e) : e \in Epochs} \cup {ModelCkptName(LastEpoch), BestName}

\* the companion's name, for a name in the directory
OptName(i) == opt_path(i)

ModelNames == {<<>>, MODEL}

\* The parses and substitutions of lines 26 and 41 for the paths of the
\* model, computed once
Paths == {os_path_join(SavePath, i) : i \in CkptNames}

EpochMemo == [p \in Paths |-> checkpoint_epoch(p)] @@ <<>>

OptMemo == [p \in Paths |-> opt_path(p)] @@ <<>>

\* np.sort(saved_epochs)[:-num_save]
stale_first_k(saved_epochs, num_save) == SliceTo(np_sort(saved_epochs), num_save)

stale_epochs(saved_epochs, num_save) == SliceTo(np_sort(saved_epochs), 0 - num_save)

\* [checkpoint for checkpoint in checkpoints
\*  if checkpoint_epoch(checkpoint) in np.sort(saved_epochs)[:-num_save]]
RECURSIVE Selected(_, _)
Selected(checkpoints, stale) ==
    IF checkpoints = <<>> THEN <<>>
    ELSE IF EpochMemo[Head(checkpoints)].val \in Range(stale)
         THEN <<Head(checkpoints)>> \o Selected(Tail(checkpoints), stale)
         ELSE Selected(Tail(checkpoints), stale)

\* delete_old_ckpts from line 37 on, checkpoints being the list of line 36:
\* the names left in the directory and how the call ended
delete_old_ckpts(fs, dn, save_path, checkpoints, num_save) ==
    LET n == Len(checkpoints)
        parsed == [i \in 1..n |-> EpochMemo[checkpoints[i]]]
        bad == {i \in 1..n : parsed[i].err # None}
    IN  IF bad # {}
        THEN [files |-> fs, result |-> parsed[CHOOSE i \in bad : \A j \in bad : i <= j].err]
        ELSE LET saved_epochs == [i \in 1..n |-> parsed[i].val]
                 old == Selected(checkpoints, stale_epochs(saved_epochs, num_save))
                 first == RemoveEach(old, fs, dn, save_path)
             IN  IF first.result # Returned THEN first
                 ELSE RemoveEach([i \in 1..Len(old) |-> OptMemo[old[i]]],
                                 first.files, dn, save_path)

----------------------------------------------------------------------------
(* The directories and calls of the model.                                 *)

\* the sets of at most one element of S
AtMostOne(S) == {{}} \cup {{x} : x \in S}

\* A directory: some checkpoints, their optimizer files but at most one, and
\* at most one file whose removal is refused
DirectoriesOf(P) ==
    UNION {{[files |-> P \cup {OptName(i) : i \in (P \ M)}, denied |-> D] :
               D \in AtMostOne(P \cup {OptName(i) : i \in (P \ M)})} :
           M \in AtMostOne(P)}

Directories == UNION {DirectoriesOf(P) : P \in SUBSET CkptNames}

NoCallYet ==
    [model_name |-> <<>>, num_save |-> 0, checkpoints |-> <<>>, before |-> {},
     result |-> NoCall]

InitCkpt ==
    /\ \E d \in Directories : files = d.files /\ denied = d.denied
    /\ call = NoCallYet

\* delete_old_ckpts(save_path, model_name, num_save), os.listdir giving the
\* names in any order
DeleteOldCkpts ==
    /\ call.result = NoCall
    /\ \E model_name \in ModelNames, num_save \in 0..MaxKeep :
         \E checkpoints \in Orders(list_checkpoints(files, SavePath, model_name)) :
            LET r == delete_old_ckpts(files, denied, SavePath, checkpoints, num_save)
            IN  /\ files' = r.files
                /\ call' = [model_name |-> model_name, num_save |-> num_save,
                            checkpoints |-> checkpoints, before |-> files,
                            result |-> r.result]
    /\ UNCHANGED denied
    /\ UNCHANGED balVars

----------------------------------------------------------------------------
(* The balanced resampler.                                                 *)

\* An optional argument: None, or the integer given
NoneArg == <<>>
Given(n) == <<n>>

\* Python's truth value of an optional integer: None and 0 are false
Truthy(v) == v # NoneArg /\ v[1] # 0

\* The process-global generator: one step of its state
NextRng(s) == (5 * s + 3) % RngMod

\* np.random.seed(seed): the generator's state afterwards
np_random_seed_skipped(s, seed) == s

np_random_seed(s, seed) == seed % RngMod

\* x with the entries at positions i and j exchanged
Swap(x, i, j) == [x EXCEPT ![i] = x[j], ![j] = x[i]]

\* numpy's shuffle: for i from n-1 down to 1, j drawn from 0..i, x[i] and
\* x[j] exchanged (positions counted from 0)
RECURSIVE ShuffleFrom(_, _, _)
ShuffleFrom(x, i, s) ==
    IF i < 1 THEN [vals |-> x, state |-> s]
    ELSE ShuffleFrom(Swap(x, i + 1, (s % (i + 1)) + 1), i - 1, NextRng(s))

\* np.random.permutation(x)
np_random_permutation(x, s) == ShuffleFrom(x, Len(x) - 1, s)

\* np.random.choice(a, size, replace=True): size draws from 0..len(a)-1
RECURSIVE ChoiceWithReplacement(_, _, _)
ChoiceWithReplacement(a, size, s) ==
    IF size = 0 THEN [vals |-> <<>>, state |-> s]
    ELSE LET r == ChoiceWithReplacement(a, size - 1, NextRng(s))
         IN  [vals |-> <<a[(s % Len(a)) + 1]>> \o r.vals, state |-> r.state]

\* np.random.choice(a, size, replace=False): the first size entries of a
\* permutation of 0..len(a)-1
ChoiceWithoutReplacement(a, size, s) ==
    LET r == np_random_permutation([i \in 1..Len(a) |-> i - 1], s)
    IN  [vals |-> [i \in 1..size |-> a[r.vals[i] + 1]], state |-> r.state]

np_random_choice_replacing(a, size, replace, s) == ChoiceWithReplacement(a, size, s)

np_random_choice(a, size, replace, s) ==
    IF replace THEN ChoiceWithReplacement(a, size, s)
    ELSE ChoiceWithoutReplacement(a, size, s)

\* np.unique(y): the labels present, ascending
RECURSIVE Ascending(_)
Ascending(S) ==
    IF S = {} THEN <<>>
    ELSE LET m == CHOOSE x \in S : \A z \in S : x <= z
         IN  <<m>> \o Ascending(S \ {m})

np_unique(y) == Ascending(Range(y))

\* np.where(y == label)[0]: the indices, from 0, ascending
np_where(y, label) == Ascending({i - 1 : i \in {j \in 1..Len(y) : y[j] = label}})

\* the counts of np.unique(y, return_counts=True)
Counts(y) == [k \in 1..Len(np_unique(y)) |-> Len(np_where(y, np_unique(y)[k]))]

Min(S) == CHOOSE x \in S : \A z \in S : x <= z
Max(S) == CHOOSE x \in S : \A z \in S : x >= z

\* lines 105 to 107: the number of entries drawn of each class
Minority(y, min_size) ==
    IF min_size # NoneArg
    THEN Max({Min(Range(Counts(y))), min_size[1] \div Len(np_unique(y))})
    ELSE Min(Range(Counts(y)))

\* lines 110 to 114 for one label: the drawn indices and the generator's
\* state afterwards
DrawLabel(y, label, minority, s) ==
    LET label_idxs == np_where(y, label)
    IN  IF Len(label_idxs) >= minority
        THEN np_random_choice(label_idxs, minority, FALSE, s)
        ELSE np_random_choice(label_idxs, minority, TRUE, s)

\* lines 116 and 117
Truncate(idxs, max_size) ==
    IF Truthy(max_size) THEN SliceTo(idxs, max_size[1]) ELSE idxs

\* balanced_dataset run alone: the returned index sequence
RECURSIVE DrawAll(_, _, _, _, _)
DrawAll(y, k, minority, idxs, s) ==
    IF k > Len(np_unique(y)) THEN [vals |-> idxs, state |-> s]
    ELSE LET r == DrawLabel(y, np_unique(y)[k], minority, s)
         IN  DrawAll(y, k + 1, minority, idxs \o r.vals, r.state)

balanced_dataset(y, max_size, min_size) ==
    LET drawn == DrawAll(y, 1, Minority(y, min_size), <<>>, np_random_seed(0, 0))
    IN  Truncate(np_random_permutation(drawn.vals, drawn.state).vals, max_size)

----------------------------------------------------------------------------
(* The callers of balanced_dataset.                                        *)

RECURSIVE SeqsUpTo(_, _)
SeqsUpTo(S, n) ==
    IF n = 0 THEN {<<>>}
    ELSE LET shorter == SeqsUpTo(S, n - 1)
         IN  shorter \cup {Append(q, x) : q \in {r \in shorter : Len(r) = n - 1}, x \in S}

Ys == SeqsUpTo(0..MaxLabel, MaxN)

ArgTuples ==
    [y : Ys,
     max_size : {NoneArg} \cup {Given(n) : n \in 0..MaxMaxSize},
     min_size : {NoneArg} \cup {Given(n) : n \in 0..MaxMinSize}]

NoArgs == [y |-> <<>>, max_size |-> NoneArg, min_size |-> NoneArg]
NoLocals == [minority |-> 0, k |-> 0, idxs |-> <<>>]

Outside(t) == pc[t] \in {"idle", "done", "raised"}

InitBal(T, I) ==
    /\ rng \in 0..(RngMod - 1)
    /\ threads = T
    /\ inputs = I
    /\ pc = [t \in T |-> "idle"]
    /\ args = [t \in T |-> NoArgs]
    /\ loc = [t \in T |-> NoLocals]
    /\ out = [t \in T |-> <<>>]
    /\ prev = [t \in T |-> <<>>]

\* lines 100 to 108: thread t calls balanced_dataset(X, y, max_size, min_size);
\* the generator is seeded, and np.min raises on a y without entries
Start(t) ==
    /\ Outside(t)
    /\ \E a \in inputs :
         /\ args' = [args EXCEPT ![t] = a]
         /\ prev' = [prev EXCEPT ![t] =
                        IF pc[t] = "done" /\ args[t] = a
                        THEN <<[out |-> out[t], entry |-> rng]>> ELSE <<>>]
         /\ pc' = [pc EXCEPT ![t] = IF a.y = <<>> THEN "raised" ELSE "draw"]
         /\ loc' = [loc EXCEPT ![t] =
                       IF a.y = <<>> THEN NoLocals
                       ELSE [minority |-> Minority(a.y, a.min_size), k |-> 1,
                             idxs |-> <<>>]]
    /\ rng' = np_random_seed(rng, 0)
    /\ out' = [out EXCEPT ![t] = <<>>]
    /\ UNCHANGED <<threads, inputs>>
    /\ UNCHANGED ckptVars

\* lines 109 to 114, one pass of the loop: the draw for the next label
Draw(t) ==
    /\ pc[t] = "draw"
    /\ LET labels == np_unique(args[t].y)
           r == DrawLabel(args[t].y, labels[loc[t].k], loc[t].minority, rng)
       IN  /\ rng' = r.state
           /\ loc' = [loc EXCEPT ![t].idxs = @ \o r.vals, ![t].k = @ + 1]
           /\ pc' = [pc EXCEPT ![t] = IF loc[t].k = Len(labels) THEN "perm" ELSE "draw"]
    /\ UNCHANGED <<threads, inputs, args, out, prev>>
    /\ UNCHANGED ckptVars

\* lines 115 to 118: the permutation, the truncation and the return
Permute(t) ==
    /\ pc[t] = "perm"
    /\ LET r == np_random_permutation(loc[t].idxs, rng)
       IN  /\ rng' = r.state
           /\ loc' = [loc EXCEPT ![t].idxs = r.vals]
           /\ out' = [out EXCEPT ![t] = Truncate(r.vals, args[t].max_size)]
    /\ pc' = [pc EXCEPT ![t] = "done"]
    /\ UNCHANGED <<threads, inputs, args, prev>>
    /\ UNCHANGED ckptVars

\* line 178: other code of the process draws from the same generator,
\* between the calls
OtherDraw ==
    /\ \A t \in threads : Outside(t)
    /\ rng' = NextRng(rng)
    /\ UNCHANGED <<threads, inputs, pc, args, loc, out, prev>>
    /\ UNCHANGED ckptVars

----------------------------------------------------------------------------
(* The specifications.                                                     *)

IdleBal == InitBal({1}, {NoArgs}) /\ rng = 0

IdleCkpt == files = {} /\ denied = {} /\ call = NoCallYet

\* delete_old_ckpts called once on a directory
Init == InitCkpt /\ IdleBal

Next == DeleteOldCkpts

Spec == Init /\ [][Next]_vars

NextBal ==
    \/ \E t \in threads : Start(t)
    \/ \E t \in threads : Draw(t)
    \/ \E t \in threads : Permute(t)
    \/ OtherDraw

\* one thread calling balanced_dataset again and again with the same arguments
InitSeq == IdleCkpt /\ \E a \in ArgTuples : InitBal({1}, {a})

SpecBal == InitSeq /\ [][NextBal]_vars

\* two threads calling balanced_dataset(X, y) on the same y
InitConc ==
    /\ IdleCkpt
    /\ \E y \in Ys : InitBal({1, 2}, {[y |-> y, max_size |-> NoneArg, min_size |-> NoneArg]})

SpecConc == InitConc /\ [][NextBal]_vars

----------------------------------------------------------------------------
(* What the claims speak of, for the delete_old_ckpts call made.           *)

Called == call.result # NoCall

Listed == Range(call.checkpoints)

\* the name in the directory of a path under save_path
NameOf(path) == SubSeq(path, Len(SavePath) + 2, Len(path))

Present(path) == NameOf(path) \in files
Existed(path) == NameOf(path) \in call.before

AllParse == \A p \in Listed : EpochMemo[p].err = None

EpochOf(p) == EpochMemo[p].val

EpochsDistinct == \A p, q \in Listed : p # q => EpochOf(p) # EpochOf(q)

CompanionsExisted == \A p \in Listed : Existed(OptMemo[p])

\* the listed checkpoints with fewer than k listed checkpoints of a larger epoch
KLargest(k) ==
    {p \in Listed : Cardinality({q \in Listed : EpochOf(q) > EpochOf(p)}) < k}

\* the k largest of the distinct epoch values listed
KLargestValues(k) ==
    LET E == {EpochOf(p) : p \in Listed}
    IN  {e \in E : Cardinality({f \in E : f > e}) < k}

\* the checkpoints the call selects for removal at lines 38 to 40
Pruned ==
    Range(Selected(call.checkpoints,
                   stale_epochs([i \in 1..Len(call.checkpoints) |->
                                    EpochOf(call.checkpoints[i])],
                                call.num_save)))

\* C1: for a listing with pairwise distinct epochs whose optimizer files all
\* exist and num_save >= 1, after delete_old_ckpts returns the checkpoints
\* present are exactly those with the num_save largest epochs, a removed
\* checkpoint's optimizer file is removed and a kept one's remains; and the
\* call does return when the file system refuses no removal.
C1_RetentionKeepsMostRecent ==
    (Called /\ AllParse /\ EpochsDistinct /\ CompanionsExisted /\ call.num_save >= 1)
    => /\ call.result = Returned
          => /\ {p \in Listed : Present(p)} = KLargest(call.num_save)
             /\ \A p \in Listed : Present(OptMemo[p]) <=> Present(p)
       /\ denied = {} => call.result = Returned

C1_Witness ==
    /\ Called /\ AllParse /\ EpochsDistinct /\ CompanionsExisted
    /\ call.result = Returned
    /\ call.num_save = 2
    /\ Cardinality(Listed) = 3
    /\ Cardinality({p \in Listed : Present(p)}) = 2
    /\ \E p \in Listed : ~Present(p) /\ ~Present(OptMemo[p]) /\ EpochOf(p) = FirstEpoch

\* C2: when a pruned checkpoint's optimizer file does not exist, the call
\* does not raise, and every pruned checkpoint and every existing optimizer
\* file of one is removed.
C2_MissingCompanionIgnored ==
    (Called /\ AllParse /\ denied = {} /\ \E p \in Pruned : ~Existed(OptMemo[p]))
    => /\ call.result = Returned
       /\ \A p \in Pruned : ~Present(p) /\ ~Present(OptMemo[p])

\* C6: when the removal of one pruned checkpoint fails, every other pruned
\* checkpoint and its optimizer file are removed all the same.
C6_FailureDoesNotAbortBatch ==
    (Called /\ AllParse /\ CompanionsExisted)
    => \A p \in Pruned :
          NameOf(p) \in denied
          => \A q \in Pruned \ {p} : ~Present(q) /\ ~Present(OptMemo[q])

\* a name whose stem (the part before the last '.') does not end in a digit
\* holds no epoch
LastDot(p) == Max({i \in 1..Len(p) : p[i] = "."})
HoldsNoEpoch(p) == LastDot(p) = 1 \/ ~IsDigit(p[LastDot(p) - 1])

\* C8: when a listed name holds no integer epoch, delete_old_ckpts raises
\* and the directory is as it was before the call.
C8_MalformedNameAbortsBeforeRemoval ==
    (Called /\ \E p \in Listed : HoldsNoEpoch(p))
    => call.result \in {ValueError, IndexError} /\ files = call.before

C8_Witness ==
    /\ Called /\ \E p \in Listed : HoldsNoEpoch(p)
    /\ call.result = ValueError
    /\ call.num_save = 1
    /\ Cardinality({p \in Listed : EpochMemo[p].err = None}) >= 2
    /\ files = call.before

\* C9: with num_save >= 1, a listed file is removed exactly when its epoch
\* is not among the num_save largest distinct epoch values listed; no file
\* of the largest epoch is removed, and a checkpoint remains.
C9_RanksDistinctEpochValues ==
    (Called /\ AllParse /\ CompanionsExisted /\ call.result = Returned /\ call.num_save >= 1)
    => /\ \A p \in Listed : ~Present(p) <=> EpochOf(p) \notin KLargestValues(call.num_save)
       /\ \A p \in Listed : EpochOf(p) \in KLargestValues(1) => Present(p)
       /\ Listed # {} => \E p \in Listed : Present(p)

\* C10: with num_save = 0 no listed checkpoint remains after the call.
C10_KeepZeroDeletesAll ==
    (Called /\ AllParse /\ CompanionsExisted /\ call.result = Returned /\ call.num_save = 0)
    => \A p \in Listed : ~Present(p)

----------------------------------------------------------------------------
(* What the claims speak of, for the balanced_dataset calls.               *)

Done(t) == pc[t] = "done"

LabelsOf(y) == Range(y)
CountOf(y, l) == Cardinality({i \in 1..Len(y) : y[i] = l})

\* the quota the claim states
Quota(y, min_size) ==
    LET least == Min({CountOf(y, l) : l \in LabelsOf(y)})
        floor == IF min_size = NoneArg THEN 0
                 ELSE min_size[1] \div Cardinality(LabelsOf(y))
    IN  IF floor > least THEN floor ELSE least

\* the positions of o that hold an index of class l
PositionsOf(o, y, l) == {i \in 1..Len(o) : y[o[i] + 1] = l}

\* C3: without max_size the result holds exactly quota entries of each class
\* present, its length is the number of classes times quota, the indices
\* drawn for a class are indices of that class, and a class with at least
\* quota entries contributes no index twice.
C3_BalancedQuota ==
    \A t \in threads :
       LET y == args[t].y
           q == Quota(y, args[t].min_size)
       IN  /\ (Done(t) /\ args[t].max_size = NoneArg)
              => /\ Len(out[t]) = Cardinality(LabelsOf(y)) * q
                 /\ \A i \in 1..Len(out[t]) : out[t][i] \in 0..(Len(y) - 1)
                 /\ \A l \in LabelsOf(y) :
                       /\ Cardinality(PositionsOf(out[t], y, l)) = q
                       /\ CountOf(y, l) >= q
                          => \A i, j \in PositionsOf(out[t], y, l) :
                                i # j => out[t][i] # out[t][j]
           /\ pc[t] = "perm"
              => /\ Len(loc[t].idxs) = Cardinality(LabelsOf(y)) * q
                 /\ \A k \in 1..Len(np_unique(y)) :
                       \A i \in ((k - 1) * q + 1)..(k * q) :
                          /\ loc[t].idxs[i] \in 0..(Len(y) - 1)
                          /\ y[loc[t].idxs[i] + 1] = np_unique(y)[k]

C3_Witness ==
    \E t \in threads :
       /\ Done(t)
       /\ args[t].max_size = NoneArg
       /\ args[t].min_size = Given(4)
       /\ CountOf(args[t].y, 0) = 1
       /\ CountOf(args[t].y, 1) = 2
       /\ Len(out[t]) = 4
       /\ \E i, j \in 1..Len(out[t]) : i # j /\ out[t][i] = out[t][j]

\* C4: a call of balanced_dataset that follows a call with the same
\* arguments returns the same index sequence, whatever the generator's state
\* before either call and whatever was drawn between them.
C4_SequentialCallsAgree ==
    \A t \in threads : (Done(t) /\ prev[t] # <<>>) => out[t] = prev[t][1].out

C4_Witness ==
    \E t \in threads :
       /\ Done(t)
       /\ prev[t] # <<>>
       /\ Len(out[t]) >= 3
       /\ prev[t][1].entry # np_random_seed(rng, 0)
       /\ prev[t][1].entry # rng

\* C5: when max_size >= 0 is given, 0 included, the result is the first
\* max_size entries of the permuted list, so its length is
\* min(max_size, number of classes * quota).
C5_MaxSizeTruncates ==
    \A t \in threads :
       (Done(t) /\ args[t].max_size # NoneArg)
       => /\ out[t] = SliceTo(loc[t].idxs, args[t].max_size[1])
          /\ Len(out[t]) = Min({args[t].max_size[1],
                                Cardinality(LabelsOf(args[t].y))
                                   * Quota(args[t].y, args[t].min_size)})

\* C7: under every interleaving of the steps of concurrent callers, each
\* caller's result is the result of the same call run alone.
C7_ConcurrentCallsDoNotInterfere ==
    \A t \in threads :
       Done(t) => out[t] = balanced_dataset(args[t].y, args[t].max_size, args[t].min_size)

=============================================================================
